---- MODULE Spec2Model ----
(***************************************************************************)
(* Visitor check-in / check-out tracker (React App component).             *)
(*                                                                         *)
(* State: the `visitors` React state of App, the queue of state updaters   *)
(* handed to setVisitors and not yet applied by a render, localStorage,    *)
(* and the readings of the wall clock (Date.now(), new Date()).            *)
(***************************************************************************)
EXTENDS Integers, Sequences, FiniteSets, TLC

\* ------------------------------------------------------------------ bounds

\* The wall clock returns a value in 0..MaxClock (milliseconds).
MaxClock ==
    1

\* At most MaxVisitors records are checked in during one run.
MaxVisitors ==
    2

\* At most MaxQueue setVisitors calls are pending before a render.
\* Longest roster the search and filter are exercised on.
ViewMaxLen ==
    2

MaxQueue ==
    2

\* ------------------------------------------------------------- JS values

\* const STORAGE_KEY = 'visitor-management-data'
STORAGE_KEY ==
    "visitor-management-data"

\* JavaScript null (checkOutTime of an open visit).
NULL ==
    <<"null">>

\* new Date().toISOString(): an ISO-8601 string, not a number.
ToISOString(ms) ==
    <<"iso", ms>>

\* The instant an ISO-8601 string denotes (new Date(isoString)).
DateParse(iso) ==
    iso[2]

\* A JavaScript string is the sequence of its characters; '' is <<>>.
EmptyStr ==
    <<>>

\* String.prototype.toLowerCase, character by character.
LowerChar(c) ==
    CASE c = "A" -> "a"
      [] c = "B" -> "b"
      [] OTHER -> c

toLowerCase(s) ==
    [i \in 1..Len(s) |-> LowerChar(s[i])]

\* String.prototype.includes: term occurs in s at some offset k (the empty
\* term occurs in every string, at offset 0).
includes(s, term) ==
    \E k \in 0..(Len(s) - Len(term)) :
        \A i \in 1..Len(term) : s[k + i] = term[i]

\* The fields of interface Visitor.
VisitorFields ==
    {"id", "name", "company", "contactPerson", "reason", "badge",
     "checkInTime", "checkOutTime", "status"}

\* The contents the form can hold when it is submitted.
FormInputs ==
    [name : {EmptyStr, <<"A", "b">>}, company : {EmptyStr},
     contactPerson : {EmptyStr, <<"B">>}, reason : {EmptyStr, <<"a">>},
     badge : {EmptyStr}]

\* A form that leaves a required field (marked * in the form) empty.
Incomplete(formData) ==
    \E f \in {"name", "contactPerson", "reason"} : formData[f] = EmptyStr

\* --------------------------------------------------------- localStorage

\* A JSON document: its top-level type and, for an array, its items.
JSONValue(type, items) ==
    [type |-> type, items |-> items]

\* What localStorage.getItem returns: absent (null), or a string that is
\* empty, malformed JSON text, or JSON text.
Absent ==
    [kind |-> "absent", json |-> JSONValue("none", <<>>)]

EmptyString ==
    [kind |-> "empty", json |-> JSONValue("none", <<>>)]

MalformedText ==
    [kind |-> "malformed", json |-> JSONValue("none", <<>>)]

JSONText(value) ==
    [kind |-> "json", json |-> value]

\* JSON.stringify of one Visitor: every field becomes a JSON number, string
\* or null.
StringifyVisitor(v) ==
    [id |-> <<"number", v.id>>,
     name |-> <<"string", v.name>>,
     company |-> <<"string", v.company>>,
     contactPerson |-> <<"string", v.contactPerson>>,
     reason |-> <<"string", v.reason>>,
     badge |-> <<"string", v.badge>>,
     checkInTime |-> <<"string", v.checkInTime>>,
     checkOutTime |-> IF v.checkOutTime = NULL THEN <<"null">>
                      ELSE <<"string", v.checkOutTime>>,
     status |-> <<"string", v.status>>]

\* JSON.stringify(visitors): the whole array, one object per record.
JSONStringify(vs) ==
    JSONText(JSONValue("array", [i \in 1..Len(vs) |-> StringifyVisitor(vs[i])]))

\* Mutant of ParseVisitor: a null checkOutTime is read as ''.
ParseVisitor_nullAsEmpty(o) ==
    [id |-> o.id[2],
     name |-> o.name[2],
     company |-> o.company[2],
     contactPerson |-> o.contactPerson[2],
     reason |-> o.reason[2],
     badge |-> o.badge[2],
     checkInTime |-> o.checkInTime[2],
     checkOutTime |-> IF o.checkOutTime[1] = "null" THEN EmptyStr ELSE o.checkOutTime[2],
     status |-> o.status[2]]

\* JSON.parse of one JSON object with the Visitor fields.
ParseVisitor(o) ==
    [id |-> o.id[2],
     name |-> o.name[2],
     company |-> o.company[2],
     contactPerson |-> o.contactPerson[2],
     reason |-> o.reason[2],
     badge |-> o.badge[2],
     checkInTime |-> o.checkInTime[2],
     checkOutTime |-> IF o.checkOutTime[1] = "null" THEN NULL ELSE o.checkOutTime[2],
     status |-> o.status[2]]

\* Values a storage key can hold before the application first starts.
InitialStorage ==
    {Absent, EmptyString, MalformedText,
     JSONText(JSONValue("null", <<>>)),
     JSONText(JSONValue("object", <<>>)),
     JSONText(JSONValue("array", <<JSONValue("number", <<>>)>>))}

\* `saved ? ... : ...` : null and the empty string are falsy.
Truthy(saved) ==
    saved.kind \notin {"absent", "empty"}

\* JSON.parse(saved) throws a SyntaxError on malformed text.
JSONParseThrows(saved) ==
    saved.kind = "malformed"

\* An item of a parsed array on which visitor.name.toLowerCase() etc. work.
IsVisitorObject(item) ==
    DOMAIN item = VisitorFields

\* The first render evaluates visitors.filter(v => v.name.toLowerCase()...):
\* a TypeError unless the value is an array of objects with these fields.
RenderThrows(value) ==
    \/ value.type # "array"
    \/ \E i \in 1..Len(value.items) : ~IsVisitorObject(value.items[i])

\* ------------------------------------------------------------- variables

VARIABLES
    app,            \* "unmounted" | "running" | "crashed"
    visitors,       \* React state of App: sequence of Visitor
    queue,          \* updaters passed to setVisitors, not yet applied
    localStorage,   \* key -> stored value
    searchTerm,     \* React state of App: the text of the search input
    filter,         \* React state of App: 'all' | 'checked-in' | 'checked-out'
    rendered,       \* the filteredVisitors handed to VisitorList by the last render
    theme,          \* React state of ThemeProvider: 'light' | 'dark'
    lastOp          \* what the last step did (observation only)

vars ==
    <<app, visitors, queue, localStorage, searchTerm, filter, rendered, theme,
      lastOp>>

\* The readings of the wall clock (Date.now(), new Date()). The wall clock
\* is not monotonic: the system may set it back between two readings.
Clock ==
    0..MaxClock

\* The observation of a step: the handler that ran, whether the submitted
\* form left a required field empty, whether alert() was shown, the
\* exception the step threw, the number of localStorage.setItem calls on the
\* roster key, and what each applied updater did.
Op(op, incomplete, alert, thrown, writes, outcomes) ==
    [op |-> op, incomplete |-> incomplete, alert |-> alert, thrown |-> thrown,
     writes |-> writes, outcomes |-> outcomes]

\* ---------------------------------------------------------- App updaters

\* Mutant of addVisitorUpdater: the new record is appended, not prepended.
addVisitorUpdater_appends(visitor, prev) ==
    prev \o <<visitor>>

\* setVisitors(prev => [visitor, ...prev])
addVisitorUpdater(visitor, prev) ==
    <<visitor>> \o prev

\* Mutant of checkOutVisitorUpdater: the status is set, the time is not.
checkOutVisitorUpdater_statusOnly(id, prev, t) ==
    [i \in 1..Len(prev) |->
        IF prev[i].id = id
        THEN [prev[i] EXCEPT !.status = "checked-out"]
        ELSE prev[i]]

\* Mutant of checkOutVisitorUpdater: the time is set, the status is not.
checkOutVisitorUpdater_timeOnly(id, prev, t) ==
    [i \in 1..Len(prev) |->
        IF prev[i].id = id
        THEN [prev[i] EXCEPT !.checkOutTime = ToISOString(t)]
        ELSE prev[i]]

\* Mutant of checkOutVisitorUpdater: the closed visits move to the end.
checkOutVisitorUpdater_toEnd(id, prev, t) ==
    LET closed == SelectSeq(prev, LAMBDA v : v.id = id)
    IN  SelectSeq(prev, LAMBDA v : v.id # id)
            \o [i \in 1..Len(closed) |->
                    [closed[i] EXCEPT !.status = "checked-out",
                                      !.checkOutTime = ToISOString(t)]]

\* setVisitors(prev => prev.map(v => v.id === id
\*     ? { ...v, status: 'checked-out', checkOutTime: new Date().toISOString() }
\*     : v))
checkOutVisitorUpdater(id, prev, t) ==
    [i \in 1..Len(prev) |->
        IF prev[i].id = id
        THEN [prev[i] EXCEPT !.status = "checked-out",
                             !.checkOutTime = ToISOString(t)]
        ELSE prev[i]]

NoVisitor ==
    [id |-> 0, name |-> EmptyStr, company |-> EmptyStr, contactPerson |-> EmptyStr,
     reason |-> EmptyStr, badge |-> EmptyStr, checkInTime |-> NULL,
     checkOutTime |-> NULL, status |-> ""]

\* A pending setVisitors call.
AddUpdate(visitor) ==
    [op |-> "add", visitor |-> visitor, id |-> visitor.id]

CheckOutUpdate(id) ==
    [op |-> "checkOut", visitor |-> NoVisitor, id |-> id]

ApplyUpdater(u, prev, t) ==
    IF u.op = "add"
    THEN addVisitorUpdater(u.visitor, prev)
    ELSE checkOutVisitorUpdater(u.id, prev, t)

\* Mutant of ProcessQueue: every updater is given the roster of the last
\* render and the last call wins, as setVisitors([visitor, ...visitors])
\* would have it.
ProcessQueue_lastWins(q, prev, t) ==
    IF q = <<>> THEN prev ELSE ApplyUpdater(q[Len(q)], prev, t)

\* React applies the pending updaters in call order, each to the result of
\* the one before it.
RECURSIVE ProcessQueue(_, _, _)
ProcessQueue(q, prev, t) ==
    IF q = <<>> THEN prev
    ELSE ProcessQueue(Tail(q), ApplyUpdater(Head(q), prev, t), t)

\* What an updater finds when it is applied to prev.
Outcome(u, prev) ==
    IF u.op = "add" THEN "added"
    ELSE IF \A i \in 1..Len(prev) : prev[i].id # u.id THEN "not-found"
    ELSE IF \E i \in 1..Len(prev) : prev[i].id = u.id /\ prev[i].status = "checked-in"
         THEN "checked-out"
    ELSE "already-checked-out"

RECURSIVE Outcomes(_, _, _)
Outcomes(q, prev, t) ==
    IF q = <<>> THEN <<>>
    ELSE <<Outcome(Head(q), prev)>>
         \o Outcomes(Tail(q), ApplyUpdater(Head(q), prev, t), t)

\* Mutant of persist: a delta write, only the newest record is stored.
persist_newestOnly(vs, storage) ==
    [storage EXCEPT ![STORAGE_KEY] =
        JSONStringify(IF vs = <<>> THEN <<>> ELSE <<vs[1]>>)]

\* Mutant of persist: the effect does not write.
persist_skipped(vs, storage) ==
    storage

\* useEffect(() => { localStorage.setItem(STORAGE_KEY,
\*     JSON.stringify(visitors)) }, [visitors])
persist(vs, storage) ==
    [storage EXCEPT ![STORAGE_KEY] = JSONStringify(vs)]

\* Number of pending check-ins.
PendingAdds(q) ==
    Cardinality({j \in 1..Len(q) : q[j].op = "add"})

\* ------------------------------------------------------- filteredVisitors

\* Mutant of matchesSearch: the company is not searched.
matchesSearch_noCompany(visitor, term) ==
    \/ includes(toLowerCase(visitor.name), toLowerCase(term))
    \/ includes(toLowerCase(visitor.contactPerson), toLowerCase(term))

\* Mutant of matchesSearch: an empty term matches nothing.
matchesSearch_emptyMatchesNothing(visitor, term) ==
    /\ term # EmptyStr
    /\ \/ includes(toLowerCase(visitor.name), toLowerCase(term))
       \/ includes(toLowerCase(visitor.company), toLowerCase(term))
       \/ includes(toLowerCase(visitor.contactPerson), toLowerCase(term))

\* const matchesSearch = visitor.name.toLowerCase().includes(...) || ...
matchesSearch(visitor, term) ==
    \/ includes(toLowerCase(visitor.name), toLowerCase(term))
    \/ includes(toLowerCase(visitor.company), toLowerCase(term))
    \/ includes(toLowerCase(visitor.contactPerson), toLowerCase(term))

\* Mutant of matchesFilter: 'checked-out' also passes the open visits.
matchesFilter_checkedOutPassesAll(visitor, flt) ==
    flt = "all" \/ flt = "checked-out" \/ visitor.status = flt

\* const matchesFilter = filter === 'all' || visitor.status === filter
matchesFilter(visitor, flt) ==
    flt = "all" \/ visitor.status = flt

\* Mutant of filteredVisitors: the matching records come out oldest first.
filteredVisitors_reversed(vs, term, flt) ==
    LET out == SelectSeq(vs, LAMBDA v : matchesSearch(v, term) /\ matchesFilter(v, flt))
    IN  [i \in 1..Len(out) |-> out[Len(out) + 1 - i]]

\* const filteredVisitors = visitors.filter(visitor => matchesSearch && matchesFilter)
filteredVisitors(vs, term, flt) ==
    SelectSeq(vs, LAMBDA v : matchesSearch(v, term) /\ matchesFilter(v, flt))

\* type FilterType
FilterType ==
    {"all", "checked-in", "checked-out"}

\* ------------------------------------------------------------ the render

\* Mutant of persistRuns: the effect does not run on mount.
persistRuns_notOnMount(mounting, applied) ==
    applied > 0

\* Mutant of persistRuns: the effect has no dependency array.
persistRuns_everyRender(mounting, applied) ==
    TRUE

\* useEffect(..., [visitors]): the effect runs after the first render and
\* after every render whose visitors array is a new one, which is every
\* render that applied a setVisitors updater (applied counts them).
persistRuns(mounting, applied) ==
    mounting \/ applied > 0

\* localStorage.setItem stores the value, or throws when the storage is
\* full or unavailable.
SetItemOutcomes ==
    {"stored", "QuotaExceededError"}

\* A render of App with state vs, term, flt, followed by its effects.
\* An exception thrown by the persist effect is caught by nobody: React
\* unmounts the tree.
Commit(op, vs, term, flt, mounting, applied, setItem, outcomes) ==
    /\ visitors' = vs
    /\ searchTerm' = term
    /\ filter' = flt
    /\ theme' = theme
    /\ IF ~persistRuns(mounting, applied)
       THEN /\ app' = "running"
            /\ rendered' = filteredVisitors(vs, term, flt)
            /\ lastOp' = Op(op, FALSE, FALSE, "none", 0, outcomes)
            /\ UNCHANGED localStorage
       ELSE IF setItem = "stored"
       THEN /\ app' = "running"
            /\ rendered' = filteredVisitors(vs, term, flt)
            /\ localStorage' = persist(vs, localStorage)
            /\ lastOp' = Op(op, FALSE, FALSE, "none", 1, outcomes)
       ELSE /\ app' = "crashed"
            /\ rendered' = <<>>
            /\ lastOp' = Op(op, FALSE, FALSE, setItem, 1, outcomes)
            /\ UNCHANGED localStorage

\* ---------------------------------------------------------------- actions

Init ==
    /\ app = "unmounted"
    /\ visitors = <<>>
    /\ queue = <<>>
    /\ localStorage \in [{STORAGE_KEY} -> InitialStorage]
    /\ searchTerm = EmptyStr
    /\ filter = "all"
    /\ rendered = <<>>
    /\ theme = "light"
    /\ lastOp = Op("none", FALSE, FALSE, "none", 0, <<>>)

\* Page load: the useState initializers run (the one of visitors reads the
\* roster key), the first render evaluates filteredVisitors, and the
\* persist effect runs on mount.
initialize ==
    /\ queue = <<>>
    /\ LET saved == localStorage[STORAGE_KEY]
           value == IF Truthy(saved) THEN saved.json ELSE JSONValue("array", <<>>)
       IN  IF Truthy(saved) /\ JSONParseThrows(saved)
           THEN /\ app' = "crashed"
                /\ visitors' = <<>>
                /\ rendered' = <<>>
                /\ searchTerm' = EmptyStr
                /\ filter' = "all"
                /\ theme' = theme
                /\ lastOp' = Op("initialize", FALSE, FALSE, "SyntaxError", 0, <<>>)
                /\ UNCHANGED localStorage
           ELSE IF RenderThrows(value)
           THEN /\ app' = "crashed"
                /\ visitors' = <<>>
                /\ rendered' = <<>>
                /\ searchTerm' = EmptyStr
                /\ filter' = "all"
                /\ theme' = theme
                /\ lastOp' = Op("initialize", FALSE, FALSE, "TypeError", 0, <<>>)
                /\ UNCHANGED localStorage
           ELSE \E setItem \in SetItemOutcomes :
                    Commit("initialize",
                           [i \in 1..Len(value.items) |-> ParseVisitor(value.items[i])],
                           EmptyStr, "all", TRUE, 0, setItem, <<>>)
    /\ UNCHANGED queue

\* Mutant of missingRequiredField: the reason is not checked.
missingRequiredField_noReason(formData) ==
    formData.name = EmptyStr \/ formData.contactPerson = EmptyStr

\* if (!formData.name || !formData.contactPerson || !formData.reason)
missingRequiredField(formData) ==
    \/ formData.name = EmptyStr
    \/ formData.contactPerson = EmptyStr
    \/ formData.reason = EmptyStr

\* App.addVisitor(visitor): queues the updater, returns nothing.
addVisitor(visitor) ==
    queue' = Append(queue, AddUpdate(visitor))

\* VisitorForm.handleSubmit: alert and return on a form with an empty
\* required field, else App.addVisitor with the new record.
\* Date.now() and new Date() are read within the same millisecond, now.
handleSubmit(formData) ==
    /\ app = "running"
    /\ IF missingRequiredField(formData)
       THEN /\ lastOp' = Op("handleSubmit", Incomplete(formData), TRUE, "none", 0, <<>>)
            /\ UNCHANGED <<app, visitors, queue, localStorage,
                           searchTerm, filter, rendered, theme>>
       ELSE /\ Len(queue) < MaxQueue
            /\ Len(visitors) + PendingAdds(queue) < MaxVisitors
            /\ \E now \in Clock :
                  addVisitor(
                     [id |-> now,
                      name |-> formData.name,
                      company |-> formData.company,
                      contactPerson |-> formData.contactPerson,
                      reason |-> formData.reason,
                      badge |-> formData.badge,
                      checkInTime |-> ToISOString(now),
                      checkOutTime |-> NULL,
                      status |-> "checked-in"])
            /\ lastOp' = Op("handleSubmit", Incomplete(formData), FALSE, "none", 0, <<>>)
            /\ UNCHANGED <<app, visitors, localStorage, searchTerm, filter, rendered, theme>>

\* App.checkOutVisitor(id): queues the updater, returns nothing.
checkOutVisitor(id) ==
    /\ app = "running"
    /\ Len(queue) < MaxQueue
    /\ queue' = Append(queue, CheckOutUpdate(id))
    /\ lastOp' = Op("checkOutVisitor", FALSE, FALSE, "none", 0, <<>>)
    /\ UNCHANGED <<app, visitors, localStorage, searchTerm, filter, rendered, theme>>

\* The render after setVisitors: the pending updaters are applied (new
\* Date() reads now), and, the visitors array being a new one, the persist
\* effect writes it.
Render(now) ==
    /\ app = "running"
    /\ queue # <<>>
    /\ queue' = <<>>
    /\ \E setItem \in SetItemOutcomes :
          Commit("render", ProcessQueue(queue, visitors, now), searchTerm, filter,
                 FALSE, Len(queue), setItem, Outcomes(queue, visitors, now))

Next ==
    \/ initialize
    \/ \E formData \in FormInputs : handleSubmit(formData)
    \/ \E id \in Clock : checkOutVisitor(id)
    \/ \E now \in Clock : Render(now)

Spec ==
    Init /\ [][Next]_vars

\* ----------------------------------------------------- search and filter

\* What a visit's searched fields can hold, and whether the visit is open.
ViewForms ==
    [name : {<<"A", "b">>, <<"B">>},
     company : {EmptyStr, <<"a", "B">>},
     contactPerson : {<<"b">>, <<"A">>},
     open : BOOLEAN]

\* The k-th visit of a roster (k counts from the oldest, 0), open or closed.
ViewVisit(f, k) ==
    [id |-> k,
     name |-> f.name,
     company |-> f.company,
     contactPerson |-> f.contactPerson,
     reason |-> <<"a">>,
     badge |-> <<"A", "B">>,
     checkInTime |-> ToISOString(k),
     checkOutTime |-> IF f.open THEN NULL ELSE ToISOString(k),
     status |-> IF f.open THEN "checked-in" ELSE "checked-out"]

\* Rosters of up to ViewMaxLen visits, newest first.
ViewRosters ==
    UNION {{[i \in 1..n |-> ViewVisit(fs[i], n - i)] : fs \in [1..n -> ViewForms]} :
            n \in 0..ViewMaxLen}

\* Texts typed into the search input.
SearchTerms ==
    {EmptyStr, <<"a">>, <<"b">>, <<"A", "B">>}

\* The application, mounted on a stored roster, before anything is typed.
ViewInit ==
    /\ app = "running"
    /\ visitors \in ViewRosters
    /\ queue = <<>>
    /\ localStorage = [key \in {STORAGE_KEY} |-> JSONStringify(visitors)]
    /\ searchTerm = EmptyStr
    /\ filter = "all"
    /\ rendered = filteredVisitors(visitors, EmptyStr, "all")
    /\ theme = "light"
    /\ lastOp = Op("initialize", FALSE, FALSE, "none", 1, <<>>)

\* SearchBar input onChange -> setSearchTerm(term), and the render that
\* follows, typed while no setVisitors updater is pending.
setSearchTerm(term) ==
    /\ app = "running"
    /\ queue = <<>>
    /\ Commit("setSearchTerm", visitors, term, filter, FALSE, 0, "stored", <<>>)
    /\ UNCHANGED queue

\* SearchBar filter button onClick -> setFilter(flt), and the render that
\* follows, clicked while no setVisitors updater is pending.
setFilter(flt) ==
    /\ app = "running"
    /\ queue = <<>>
    /\ Commit("setFilter", visitors, searchTerm, flt, FALSE, 0, "stored", <<>>)
    /\ UNCHANGED queue

ViewNext ==
    \/ \E term \in SearchTerms : setSearchTerm(term)
    \/ \E flt \in FilterType : setFilter(flt)

ViewSpec ==
    ViewInit /\ [][ViewNext]_vars

\* ------------------------------------------------- addVisitor as a prop

\* The values of type Visitor that describe a visit just begun: any strings
\* in the text fields, the empty string included.
NewVisits ==
    {[id |-> now,
      name |-> formData.name,
      company |-> formData.company,
      contactPerson |-> formData.contactPerson,
      reason |-> formData.reason,
      badge |-> formData.badge,
      checkInTime |-> ToISOString(now),
      checkOutTime |-> NULL,
      status |-> "checked-in"] : formData \in FormInputs, now \in Clock}

\* The application, mounted on an empty storage.
AddVisitorInit ==
    /\ app = "running"
    /\ visitors = <<>>
    /\ queue = <<>>
    /\ localStorage = [key \in {STORAGE_KEY} |-> JSONStringify(<<>>)]
    /\ searchTerm = EmptyStr
    /\ filter = "all"
    /\ rendered = <<>>
    /\ theme = "light"
    /\ lastOp = Op("initialize", FALSE, FALSE, "none", 1, <<>>)

\* onAddVisitor(visitor): App.addVisitor called by a child with a Visitor.
onAddVisitor(visitor) ==
    /\ app = "running"
    /\ Len(queue) < MaxQueue
    /\ Len(visitors) + PendingAdds(queue) < MaxVisitors
    /\ addVisitor(visitor)
    /\ lastOp' = Op("addVisitor", FALSE, FALSE, "none", 0, <<>>)
    /\ UNCHANGED <<app, visitors, localStorage, searchTerm, filter, rendered, theme>>

AddVisitorNext ==
    \/ \E visitor \in NewVisits : onAddVisitor(visitor)
    \/ \E now \in Clock : Render(now)

AddVisitorSpec ==
    AddVisitorInit /\ [][AddVisitorNext]_vars

\* ----------------------------------------------------------- the theme

\* Mutant of THEME_STORAGE_KEY: the theme is stored under the roster key.
THEME_STORAGE_KEY_shared ==
    "visitor-management-data"

\* const THEME_STORAGE_KEY = 'visitor-management-theme'
THEME_STORAGE_KEY ==
    "visitor-management-theme"

\* type Theme
Themes ==
    {"light", "dark"}

\* The text localStorage holds for a theme: the theme's name, as it is.
ThemeText(t) ==
    [kind |-> "text", json |-> [type |-> t, items |-> <<>>]]

\* The application with ThemeProvider, mounted on an empty storage: both
\* mount effects have written their key.
ThemeInit ==
    /\ app = "running"
    /\ visitors = <<>>
    /\ queue = <<>>
    /\ theme = "light"
    /\ localStorage = [key \in {STORAGE_KEY, THEME_STORAGE_KEY} |->
                          IF key = STORAGE_KEY THEN JSONStringify(<<>>)
                          ELSE ThemeText(theme)]
    /\ searchTerm = EmptyStr
    /\ filter = "all"
    /\ rendered = <<>>
    /\ lastOp = Op("initialize", FALSE, FALSE, "none", 1, <<>>)

\* DarkModeToggle onClick -> toggleTheme: setTheme(prev => the other one),
\* the render of ThemeProvider and its effect on [theme], which stores the
\* theme; clicked while no setVisitors updater is pending. App's state is
\* untouched, so its persist effect does not run. A setItem that throws
\* unmounts the tree.
toggleTheme ==
    /\ app = "running"
    /\ queue = <<>>
    /\ theme' = IF theme = "light" THEN "dark" ELSE "light"
    /\ \E setItem \in SetItemOutcomes :
          IF setItem = "stored"
          THEN /\ localStorage' =
                     [localStorage EXCEPT ![THEME_STORAGE_KEY] = ThemeText(theme')]
               /\ lastOp' = Op("toggleTheme", FALSE, FALSE, "none", 1, <<>>)
               /\ UNCHANGED <<app, rendered>>
          ELSE /\ app' = "crashed"
               /\ rendered' = <<>>
               /\ lastOp' = Op("toggleTheme", FALSE, FALSE, setItem, 1, <<>>)
               /\ UNCHANGED localStorage
    /\ UNCHANGED <<visitors, queue, searchTerm, filter>>

ThemeNext ==
    \/ toggleTheme
    \/ \E formData \in FormInputs : handleSubmit(formData)
    \/ \E id \in Clock : checkOutVisitor(id)
    \/ \E now \in Clock : Render(now)

ThemeSpec ==
    ThemeInit /\ [][ThemeNext]_vars

\* ------------------------------------------- the render, phase by phase

\* The render after setVisitors up to the commit: the pending updaters are
\* applied, filteredVisitors is computed from the new roster and handed to
\* VisitorList. The persist effect is scheduled, not yet run (app is
\* "painted" until it has).
RenderPhase(now) ==
    /\ app = "running"
    /\ queue # <<>>
    /\ visitors' = ProcessQueue(queue, visitors, now)
    /\ queue' = <<>>
    /\ rendered' = filteredVisitors(visitors', searchTerm, filter)
    /\ app' = "painted"
    /\ lastOp' = Op("paint", FALSE, FALSE, "none", 0, Outcomes(queue, visitors, now))
    /\ UNCHANGED <<localStorage, searchTerm, filter, theme>>

\* Mutant of PersistEffect: the effect runs and stores nothing.
PersistEffect_skipped ==
    /\ app = "painted"
    /\ app' = "running"
    /\ lastOp' = Op("persistEffect", FALSE, FALSE, "none", 1, <<>>)
    /\ UNCHANGED <<visitors, queue, localStorage, searchTerm, filter, rendered, theme>>

\* The persist effect of the committed render: React runs it after the
\* commit and before it handles another event. setItem stores the roster
\* or throws, which unmounts the tree.
PersistEffect ==
    /\ app = "painted"
    /\ \E setItem \in SetItemOutcomes :
          IF setItem = "stored"
          THEN /\ localStorage' = persist(visitors, localStorage)
               /\ app' = "running"
               /\ lastOp' = Op("persistEffect", FALSE, FALSE, "none", 1, <<>>)
               /\ UNCHANGED rendered
          ELSE /\ app' = "crashed"
               /\ rendered' = <<>>
               /\ lastOp' = Op("persistEffect", FALSE, FALSE, setItem, 1, <<>>)
               /\ UNCHANGED localStorage
    /\ UNCHANGED <<visitors, queue, searchTerm, filter, theme>>

PaintNext ==
    \/ \E formData \in FormInputs : handleSubmit(formData)
    \/ \E id \in Clock : checkOutVisitor(id)
    \/ \E now \in Clock : RenderPhase(now)
    \/ PersistEffect

PaintSpec ==
    AddVisitorInit /\ [][PaintNext]_vars

\* -------------------------------------------------------------- the counts

\* Stats({ visitors }): totalVisitors = visitors.length, and the lengths of
\* visitors.filter(v => v.status === 'checked-in') and ... 'checked-out'.
Stats(vs) ==
    [totalVisitors |-> Len(vs),
     checkedIn |-> Len(SelectSeq(vs, LAMBDA v : v.status = "checked-in")),
     checkedOut |-> Len(SelectSeq(vs, LAMBDA v : v.status = "checked-out"))]

\* Mutant of StatsShown: the counts are taken from the list on display.
StatsShown_ofProjection ==
    Stats(rendered)

\* <Stats visitors={visitors} />: the counts on display.
StatsShown ==
    Stats(visitors)

\* ------------------------------------------------------ the visitor cards

\* const isCheckedIn = visitor.status === 'checked-in': the card shows the
\* check-out button only then.
isCheckedIn(visitor) ==
    visitor.status = "checked-in"

\* A click on the check-out button of the i-th card of VisitorList:
\* onCheckOut(visitor.id) with the visitor the card was rendered with.
\* React has rendered the effect of every earlier event by then.
clickCheckOut(i) ==
    /\ queue = <<>>
    /\ i \in 1..Len(rendered)
    /\ isCheckedIn(rendered[i])
    /\ checkOutVisitor(rendered[i].id)

CardsNext ==
    \/ \E formData \in FormInputs : handleSubmit(formData)
    \/ \E i \in 1..MaxVisitors : clickCheckOut(i)
    \/ \E now \in Clock : Render(now)

CardsSpec ==
    AddVisitorInit /\ [][CardsNext]_vars

\* ----------------------------------------------------------------- steps

\* A step that applies the pending updaters (only Render empties the queue).
RenderStep ==
    app = "running" /\ queue # <<>> /\ queue' = <<>>

\* The pending check-ins, in call order.
PendingVisitors(q) ==
    LET adds == SelectSeq(q, LAMBDA u : u.op = "add")
    IN  [j \in 1..Len(adds) |-> adds[j].visitor]

\* Two records of the same visit: equal but for what a check-out sets.
SameVisit(v, w) ==
    [v EXCEPT !.status = "", !.checkOutTime = NULL]
        = [w EXCEPT !.status = "", !.checkOutTime = NULL]

\* The roster the storage key holds, for a key written by the persist effect.
StoredRoster ==
    LET items == localStorage[STORAGE_KEY].json.items
    IN  [i \in 1..Len(items) |-> ParseVisitor(items[i])]

\* A stored value that parses as a roster.
ValidRosterText(saved) ==
    /\ saved.kind = "json"
    /\ saved.json.type = "array"
    /\ \A i \in 1..Len(saved.json.items) : DOMAIN saved.json.items[i] = VisitorFields

\* ---------------------------------------------------------------- claims

\* C1: a check-in with non-empty name, contactPerson and reason creates a
\* record with status checked-in and checkOutTime null; when the render
\* applies the pending calls, each new record stands in front of every
\* record that was in the roster before it (the newest at index 0), and a
\* check-in applied alone yields exactly the new record followed by the
\* roster as it was.
C1_CheckInPrepends ==
    [][ /\ (lastOp'.op = "handleSubmit" /\ ~lastOp'.incomplete) =>
              /\ Len(queue') = Len(queue) + 1
              /\ SubSeq(queue', 1, Len(queue)) = queue
              /\ queue'[Len(queue')].op = "add"
              /\ queue'[Len(queue')].visitor.status = "checked-in"
              /\ queue'[Len(queue')].visitor.checkOutTime = NULL
        /\ RenderStep =>
              LET new == PendingVisitors(queue)
                  n == Len(new)
              IN  /\ Len(visitors') = Len(visitors) + n
                  /\ \A j \in 1..n : SameVisit(visitors'[n + 1 - j], new[j])
                  /\ \A i \in 1..Len(visitors) : SameVisit(visitors'[n + i], visitors[i])
                  /\ (Len(queue) = 1 /\ n = 1) => visitors' = <<new[1]>> \o visitors
      ]_vars

\* C1 witness: a render has applied a check-in to a non-empty roster and the
\* new, open record is at the front.
C1_Witness ==
    /\ lastOp.op = "render"
    /\ lastOp.outcomes = <<"added">>
    /\ Len(visitors) = 2
    /\ visitors[1].status = "checked-in"
    /\ visitors[1].checkOutTime = NULL

\* C2: a check-in attempt with an empty name, contactPerson or reason is
\* rejected (the alert is shown): no record is created, no update is queued,
\* the roster and the storage key are unchanged and nothing is written.
C2_IncompleteFormRejected ==
    [][ (lastOp'.op = "handleSubmit" /\ lastOp'.incomplete) =>
            /\ lastOp'.alert
            /\ lastOp'.writes = 0
            /\ visitors' = visitors
            /\ queue' = queue
            /\ localStorage' = localStorage
            /\ app' = app
      ]_vars

\* C2 witness: an incomplete form was submitted while the roster held a
\* record, and the alert was shown.
C2_Witness ==
    /\ lastOp.op = "handleSubmit"
    /\ lastOp.incomplete
    /\ lastOp.alert
    /\ Len(visitors) >= 1

\* C3 (as claimed): a checkOut on the id of a record that an earlier
\* checkOut has already checked out leaves that record, status and
\* checkOutTime, exactly as the first call left it.
C3_SecondCheckOutLeavesRecord ==
    [][ RenderStep =>
            \A j \in 1..Len(queue) : \A i \in 1..Len(visitors) :
                (/\ queue[j].op = "checkOut"
                 /\ visitors[i].id = queue[j].id
                 /\ visitors[i].status = "checked-out")
                => visitors'[Len(PendingVisitors(queue)) + i] = visitors[i]
      ]_vars

\* C4 (as claimed): a checkOut whose id no record has leaves the roster as
\* it is and triggers no write to the storage key.
C4_UnknownIdNoWrite ==
    [][ (/\ RenderStep
         /\ \A j \in 1..Len(queue) :
                /\ queue[j].op = "checkOut"
                /\ \A i \in 1..Len(visitors) : visitors[i].id # queue[j].id)
        => (visitors' = visitors /\ lastOp'.writes = 0)
      ]_vars

\* C5: every record of the roster, in memory and as stored, is checked-out
\* if and only if its checkOutTime is not null.
C5_StatusIffCheckOutTime ==
    /\ \A i \in 1..Len(visitors) :
          (visitors[i].status = "checked-out") <=> (visitors[i].checkOutTime # NULL)
    /\ (app = "running" =>
          \A i \in 1..Len(StoredRoster) :
             (StoredRoster[i].status = "checked-out")
                 <=> (StoredRoster[i].checkOutTime # NULL))

\* C5 witness: after a reload the roster holds an open and a closed visit.
C5_Witness ==
    /\ lastOp.op = "initialize"
    /\ \E i \in 1..Len(visitors) : visitors[i].status = "checked-out"
    /\ \E i \in 1..Len(visitors) : visitors[i].status = "checked-in"

\* C6 (as claimed): no two records of the roster have the same id.
C6_IdsUnique ==
    \A i, j \in 1..Len(visitors) : visitors[i].id = visitors[j].id => i = j

\* C7 (as claimed): the checkOutTime of every checked-out record is not
\* earlier than its checkInTime.
C7_CheckOutNotBeforeCheckIn ==
    \A i \in 1..Len(visitors) :
        visitors[i].status = "checked-out" =>
            DateParse(visitors[i].checkOutTime) >= DateParse(visitors[i].checkInTime)

\* C8 (as claimed): initialize on a storage key that holds no value, or a
\* value that does not parse as a roster, starts from the empty roster,
\* throws nothing and leaves the application running.
C8_InitializeToleratesBadStorage ==
    [][ (lastOp'.op = "initialize" /\ ~ValidRosterText(localStorage[STORAGE_KEY]))
        => (app' = "running" /\ visitors' = <<>> /\ lastOp'.thrown = "none")
      ]_vars

\* Number of successful mutations among the outcomes of a render.
Successful(outcomes) ==
    Cardinality({j \in 1..Len(outcomes) : outcomes[j] \in {"added", "checked-out"}})

ReloadStep ==
    app = "running" /\ queue = <<>> /\ lastOp'.op = "initialize"

C12_WriteFailureNotFatal ==
    (lastOp.op = "render" /\ lastOp.thrown = "QuotaExceededError")
        => (app = "running" /\ rendered = filteredVisitors(visitors, searchTerm, filter))

\* ------------------------------------------------- search, stated anew

\* Two characters that are the same letter, whatever their case.
SameLetter(c, d) ==
    LowerChar(c) = LowerChar(d)

\* term occurs in s when case is ignored.
ContainsIgnoringCase(s, term) ==
    \E k \in 0..(Len(s) - Len(term)) :
        \A i \in 1..Len(term) : SameLetter(s[k + i], term[i])

\* The search predicate: the term occurs in name, company or contactPerson.
SearchPasses(v, term) ==
    \/ ContainsIgnoringCase(v.name, term)
    \/ ContainsIgnoringCase(v.company, term)
    \/ ContainsIgnoringCase(v.contactPerson, term)

\* The status filter.
StatusPasses(v, flt) ==
    CASE flt = "all" -> TRUE
      [] flt = "checked-in" -> v.status = "checked-in"
      [] flt = "checked-out" -> v.status = "checked-out"

\* The elements of a sequence.
Range(seq) ==
    {seq[i] : i \in 1..Len(seq)}

\* C13: the search predicate is a case-insensitive substring match on
\* name, company and contactPerson and on nothing else: every record shown
\* has the term in one of the three, with the filter at 'all' every record
\* that has it is shown, and the empty term lets every record through.
C13_SearchPredicate ==
    app = "running" =>
        /\ \A j \in 1..Len(rendered) : SearchPasses(rendered[j], searchTerm)
        /\ filter = "all" =>
              \A i \in 1..Len(visitors) :
                  SearchPasses(visitors[i], searchTerm) => visitors[i] \in Range(rendered)
        /\ \A i \in 1..Len(visitors) : matchesSearch(visitors[i], EmptyStr)

\* C13 witness: a search was typed in a letter case other than the
\* record's, over a roster where one record has the term in the company
\* only (it is shown) and one has it in reason and badge only (it is not).
C13_Witness ==
    /\ lastOp.op = "setSearchTerm"
    /\ searchTerm = <<"A", "B">>
    /\ filter = "all"
    /\ Len(visitors) = 2
    /\ Len(rendered) = 1
    /\ rendered[1].name = <<"B">>
    /\ rendered[1].company = <<"a", "B">>

\* C14: the projection shows exactly the records that pass both the search
\* predicate and the status filter, 'all' passing every record and
\* 'checked-in' / 'checked-out' only the records of that status.
C14_ProjectIsConjunction ==
    app = "running" =>
        rendered = SelectSeq(visitors,
                      LAMBDA v : SearchPasses(v, searchTerm) /\ StatusPasses(v, filter))

\* C14 witness: with a term and the 'checked-out' filter set, of two records
\* that both have the term only the closed one is shown.
C14_Witness ==
    /\ lastOp.op \in {"setSearchTerm", "setFilter"}
    /\ searchTerm = <<"b">>
    /\ filter = "checked-out"
    /\ Len(visitors) = 2
    /\ visitors[1].status = "checked-in"
    /\ SearchPasses(visitors[1], searchTerm)
    /\ rendered = <<visitors[2]>>

\* C15: with the empty term and the 'all' filter the projection is the
\* whole roster in roster order.
C15_IdentityLaw ==
    (app = "running" /\ searchTerm = EmptyStr /\ filter = "all") => rendered = visitors

\* C15 witness: term and filter were set back to '' and 'all' over a roster
\* of an open and a closed visit, one of them without a company.
C15_Witness ==
    /\ lastOp.op \in {"setSearchTerm", "setFilter"}
    /\ searchTerm = EmptyStr
    /\ filter = "all"
    /\ Len(rendered) = 2
    /\ rendered[1].status = "checked-out"
    /\ rendered[2].status = "checked-in"
    /\ rendered[2].company = EmptyStr

\* out can be obtained from vs by deleting elements.
RECURSIVE IsSubsequence(_, _)
IsSubsequence(out, vs) ==
    IF out = <<>> THEN TRUE
    ELSE IF vs = <<>> THEN FALSE
    ELSE IF out[1] = vs[1] THEN IsSubsequence(Tail(out), Tail(vs))
    ELSE IsSubsequence(out, Tail(vs))

\* C16: the projection is a subsequence of the roster: no record that is
\* not in the roster, none more often than the roster has it, and the
\* records in the roster's order.
C16_ProjectIsSubsequence ==
    app = "running" => IsSubsequence(rendered, visitors)

\* C16 witness: two different records are shown, in roster order.
C16_Witness ==
    /\ lastOp.op = "setSearchTerm"
    /\ searchTerm # EmptyStr
    /\ Len(visitors) = 2
    /\ Len(rendered) = 2
    /\ rendered[1] # rendered[2]
    /\ rendered[1] = visitors[1]

\* C17: typing a search term or choosing a filter, and the projection
\* computed by the render that follows, leave the roster and the stored
\* value as they were and write nothing to the storage.
C17_ProjectionHasNoEffect ==
    [][lastOp'.op \in {"setSearchTerm", "setFilter"}
          => (/\ visitors' = visitors
              /\ localStorage' = localStorage
              /\ queue' = queue
              /\ lastOp'.writes = 0)]_vars

\* C17 witness: a search that hides a record of the roster was rendered.
C17_Witness ==
    /\ lastOp.op = "setSearchTerm"
    /\ lastOp.writes = 0
    /\ Len(visitors) = 2
    /\ Len(rendered) = 1
    /\ localStorage[STORAGE_KEY] = JSONStringify(visitors)

\* project(roster, "", flt): what the roster shows under the empty term.
ShownAs(flt) ==
    filteredVisitors(visitors, EmptyStr, flt)

\* The 'checked-in' projection in and the 'checked-out' projection out of
\* roster vs share no record and together hold every record of vs.
Partitions(in, out, vs) ==
    /\ Range(in) \cap Range(out) = {}
    /\ Len(in) + Len(out) = Len(vs)
    /\ Range(vs) \subseteq Range(in) \cup Range(out)

\* C19: a record that has been checked out (its checkOutTime is set) is in
\* the 'checked-out' projection and not in the 'checked-in' one (empty
\* term); and in every state the two projections are disjoint and together
\* hold every record of the roster.
C19_CheckOutMovesRecord ==
    LET in == ShownAs("checked-in")
        out == ShownAs("checked-out")
    IN  /\ Partitions(in, out, visitors)
        /\ \A i \in 1..Len(visitors) :
              visitors[i].checkOutTime # NULL
                  => (visitors[i] \in Range(out) /\ visitors[i] \notin Range(in))

\* C19 witness: a check-out was applied and the roster now shows one open
\* and one closed visit.
C19_Witness ==
    /\ lastOp.op = "render"
    /\ \E j \in 1..Len(lastOp.outcomes) : lastOp.outcomes[j] = "checked-out"
    /\ app = "running"
    /\ Len(ShownAs("checked-in")) = 1
    /\ Len(ShownAs("checked-out")) = 1

\* C20 (as claimed): a checkOutTime, once set, is never changed and the
\* status never goes back to 'checked-in': whatever the step (a check-in,
\* a check-out of the same or of another id, a reload), every closed record
\* is found at its place in the roster with the checkOutTime it had.
C20_CheckOutTimeSetOnce ==
    [][(app = "running" /\ app' = "running" /\ Len(visitors') >= Len(visitors))
          => \A i \in 1..Len(visitors) :
                visitors[i].checkOutTime # NULL
                    => LET r == visitors'[Len(visitors') - Len(visitors) + i]
                       IN  /\ r.checkOutTime = visitors[i].checkOutTime
                           /\ r.status = "checked-out"]_vars

\* Every id on the roster before the step is on it after the step, and the
\* roster is not shorter.
KeepsRecords ==
    /\ Len(visitors') >= Len(visitors)
    /\ \A i \in 1..Len(visitors) :
          \E j \in 1..Len(visitors') : visitors'[j].id = visitors[i].id

\* C21 (as claimed): no check-in, check-out or reload of storage that the
\* application wrote removes a record: every id on the roster stays on it
\* and the roster never gets shorter.
C21_NeverDeletes ==
    [][KeepsRecords]_vars

C23_ThemeAndRosterApart ==
    [][/\ STORAGE_KEY # THEME_STORAGE_KEY
       /\ lastOp'.op = "toggleTheme" =>
             /\ visitors' = visitors
             /\ localStorage'[STORAGE_KEY] = localStorage[STORAGE_KEY]
             /\ lastOp'.thrown = "none" =>
                   localStorage'[THEME_STORAGE_KEY] = ThemeText(theme')
       /\ lastOp'.op \in {"handleSubmit", "checkOutVisitor", "render"} =>
             /\ theme' = theme
             /\ localStorage'[THEME_STORAGE_KEY] = localStorage[THEME_STORAGE_KEY]]_vars

\* C23 witness: the theme was toggled to dark over a stored roster of two
\* records, one of them checked out.
C23_Witness ==
    /\ lastOp.op = "toggleTheme"
    /\ app = "running"
    /\ theme = "dark"
    /\ localStorage[THEME_STORAGE_KEY] = ThemeText("dark")
    /\ Len(visitors) = 2
    /\ visitors[2].status = "checked-out"
    /\ localStorage[STORAGE_KEY] = JSONStringify(visitors)

\* A render that applies one check-out, of an id that an open visit on the
\* roster has.
SuccessfulCheckOutStep ==
    /\ RenderStep
    /\ Len(queue) = 1
    /\ queue[1].op = "checkOut"
    /\ \E i \in 1..Len(visitors) :
          visitors[i].id = queue[1].id /\ visitors[i].status = "checked-in"

\* C24 (as claimed): a successful check-out changes exactly one record of
\* the roster, and of that record only status and checkOutTime; every
\* other record is the same in every field.
C24_CheckOutChangesOneRecord ==
    [][SuccessfulCheckOutStep =>
          /\ Len(visitors') = Len(visitors)
          /\ \A i \in 1..Len(visitors) : SameVisit(visitors'[i], visitors[i])
          /\ Cardinality({i \in 1..Len(visitors) : visitors'[i] # visitors[i]}) = 1]_vars

\* The older of two rosters is the tail of the newer one: counted from the
\* oldest record, the two list the same visits in the same order.
SameOrder(vs, ws) ==
    LET n == IF Len(vs) < Len(ws) THEN Len(vs) ELSE Len(ws)
    IN  \A i \in 1..n : SameVisit(vs[Len(vs) - n + i], ws[Len(ws) - n + i])

\* C25: the roster is newest-first and stays so: no step changes the
\* relative order of the records (a check-out leaves each record at its
\* position, a reload brings the records back in the order stored), and a
\* render puts the new records in front of the old ones, the latest
\* check-in first.
C25_NewestFirst ==
    [][/\ SameOrder(visitors', visitors)
       /\ RenderStep =>
             LET new == PendingVisitors(queue)
             IN  /\ Len(visitors') = Len(new) + Len(visitors)
                 /\ \A j \in 1..Len(new) :
                       visitors'[j].checkInTime = new[Len(new) + 1 - j].checkInTime]_vars

\* C25 witness: of two visits the newer one, at the front, was checked out
\* and the older one is still open behind it.
C25_Witness ==
    /\ lastOp.op = "render"
    /\ Len(visitors) = 2
    /\ visitors[1].id # visitors[2].id
    /\ visitors[1].status = "checked-out"
    /\ visitors[2].status = "checked-in"

CheckedOutLater(q, j, id) ==
    \E k \in (j + 1)..Len(q) : q[k].op = "checkOut" /\ q[k].id = id

\* The number of check-ins among the first j calls of q.
AddsUpTo(q, j) ==
    Cardinality({k \in 1..j : q[k].op = "add"})

\* C27: a render that applies several queued calls loses none of them and
\* applies them in call order: every queued check-in is on the roster,
\* the later call in front; a record is checked out exactly if it was so
\* before or a check-out of its id was called after the record came onto
\* the roster (a check-out called before the check-in of that id does not
\* touch it).
C27_NoLostUpdate ==
    [][RenderStep =>
          LET n == AddsUpTo(queue, Len(queue))
          IN  /\ Len(visitors') = n + Len(visitors)
              /\ \A j \in 1..Len(queue) :
                    queue[j].op = "add" =>
                        LET r == visitors'[n + 1 - AddsUpTo(queue, j)]
                        IN  /\ SameVisit(r, queue[j].visitor)
                            /\ r.status = "checked-out"
                                  <=> CheckedOutLater(queue, j, queue[j].visitor.id)
              /\ \A i \in 1..Len(visitors) :
                    /\ SameVisit(visitors'[n + i], visitors[i])
                    /\ visitors'[n + i].status = "checked-out"
                          <=> \/ visitors[i].status = "checked-out"
                              \/ CheckedOutLater(queue, 0, visitors[i].id)]_vars

\* C27 witness: one render applied a check-in and, called after it, the
\* check-out of the new record, on top of an older record.
C27_Witness ==
    /\ lastOp.op = "render"
    /\ lastOp.outcomes = <<"added", "checked-out">>
    /\ Len(visitors) = 2
    /\ visitors[1].status = "checked-out"
    /\ visitors[2].status = "checked-in"

\* C28 (as claimed): every card on display offers the check-out exactly if
\* its record is checked-in on the current roster, and so no click calls
\* checkOutVisitor with the id of a record that is already checked out.
C28_CheckOutOnlyForOpenVisits ==
    [][/\ \A i \in 1..Len(rendered) :
             isCheckedIn(rendered[i]) <=> visitors[i].status = "checked-in"
       /\ lastOp'.op = "checkOutVisitor" =>
             \A i \in 1..Len(visitors) :
                 visitors[i].id = queue'[Len(queue')].id
                     => visitors[i].status = "checked-in"]_vars

\* The number of records of the roster vs with the given status.
CountOf(vs, status) ==
    Cardinality({i \in 1..Len(vs) : vs[i].status = status})

C30_InitializeWritesNothing ==
    [][lastOp'.op = "initialize"
          => localStorage'[STORAGE_KEY] = localStorage[STORAGE_KEY]]_vars

\* C30 (amended): a start-up that mounts the application writes the roster it
\* loaded to the roster key: a stored roster is stored again with the same
\* value, and a key that was absent or held the empty string holds the
\* empty roster afterwards; a start-up that throws leaves the key as it was.
\* No other step writes the key unless it renders a check-in or check-out.
C30_InitializeStoresLoadedRoster ==
    [][/\ lastOp'.op = "initialize" =>
             LET saved == localStorage[STORAGE_KEY]
                 after == localStorage'[STORAGE_KEY]
             IN  IF lastOp'.thrown = "none"
                 THEN /\ lastOp'.writes = 1
                      /\ after = JSONStringify(visitors')
                      /\ Truthy(saved) => after = saved
                      /\ ~Truthy(saved) => after = JSONStringify(<<>>)
                 ELSE after = saved
       /\ (lastOp'.op # "initialize" /\ queue' # <<>>)
             => localStorage' = localStorage
       /\ (lastOp'.op # "initialize" /\ queue = <<>>)
             => localStorage' = localStorage]_vars

C30_Witness ==
    /\ app = "running"
    /\ lastOp.op = "initialize"
    /\ lastOp.writes = 1
    /\ Len(visitors) = 2
    /\ visitors[2].status = "checked-out"
    /\ localStorage[STORAGE_KEY] = JSONStringify(visitors)

====
